---- MODULE Spec2Model ----
(***************************************************************************)
(* A model of the issue-triage pipeline: the file cache of analyses        *)
(* (cache_utils.py), the issue fetcher (github_utils.py) and the analyzer  *)
(* (hf.py).                                                                *)
(*                                                                         *)
(* Text is modelled in two grains.  URLs, cache keys and file names are    *)
(* sequences of one-character strings, so that replace/split/format act on *)
(* characters as the code does.  JSON text (cache files, model responses)  *)
(* is a sequence of lexical tokens, and json.dump / json.load are a        *)
(* printer and a recursive-descent parser over those tokens.               *)
(***************************************************************************)
EXTENDS Integers, Sequences, FiniteSets, TLC

VARIABLES
    dirState,   \* what is at the path ".cache": "absent" | "dir" | "file" | "denied"
    files,      \* the entries of the cache directory: file name -> content (tokens)
    last,       \* the last cache call: its arguments and how it ended
    cleared,    \* entries the last clear_cache removed; -1 before one, and after a put
    pc,         \* concurrent writers: writer -> "start" | "opened" | "closed"
    wrec,       \* concurrent writers: writer -> the record it stores
    order,      \* concurrent writers: the writers in the order they closed
    fetched,    \* the last fetch_github_issue call: inputs, requests sent, result
    analyzed    \* the last analyze_issue_with_ai call: model response, result

vars == <<dirState, files, last, cleared, pc, wrec, order, fetched, analyzed>>

(***************************************************************************)
(* Bounds of the model.                                                    *)
(***************************************************************************)
MaxIssue == 2      \* issue numbers are 1..MaxIssue

(***************************************************************************)
(* Character strings.                                                      *)
(***************************************************************************)
Last(s) == s[Len(s)]

StartsWith(s, p) == Len(p) <= Len(s) /\ SubSeq(s, 1, Len(p)) = p

EndsWith(s, p) == Len(p) <= Len(s) /\ SubSeq(s, Len(s) - Len(p) + 1, Len(s)) = p

Drop(s, n) == SubSeq(s, n + 1, Len(s))

\* str.replace(old, new): every non-overlapping occurrence, left to right.
RECURSIVE Replace(_, _, _)
Replace(s, old, new) ==
    IF s = <<>> THEN <<>>
    ELSE IF old # <<>> /\ StartsWith(s, old)
         THEN new \o Replace(Drop(s, Len(old)), old, new)
         ELSE <<Head(s)>> \o Replace(Tail(s), old, new)

\* str.split(sep) for a one-character separator: always at least one piece.
RECURSIVE Split(_, _)
Split(s, sep) ==
    IF \A i \in 1..Len(s) : s[i] # sep THEN <<s>>
    ELSE LET i == CHOOSE j \in 1..Len(s) :
                     s[j] = sep /\ \A k \in 1..(j - 1) : s[k] # sep
         IN  <<SubSeq(s, 1, i - 1)>> \o Split(Drop(s, i), sep)

Digit(d) == <<"0", "1", "2", "3", "4", "5", "6", "7", "8", "9">>[d + 1]

\* str(n) of a non-negative integer.
RECURSIVE StrOfNat(_)
StrOfNat(n) == IF n < 10 THEN <<Digit(n)>> ELSE StrOfNat(n \div 10) \o <<Digit(n % 10)>>

StrOfInt(n) == IF n < 0 THEN <<"-">> \o StrOfNat(-n) ELSE StrOfNat(n)

GithubPrefix ==
    <<"h", "t", "t", "p", "s", ":", "/", "/",
      "g", "i", "t", "h", "u", "b", ".", "c", "o", "m", "/">>

IssueMarker == <<"_", "i", "s", "s", "u", "e", "_">>

JsonSuffix == <<".", "j", "s", "o", "n">>

(***************************************************************************)
(* JSON values, as Python holds them.  One record shape for every value so *)
(* that any two values can be compared: t is the type, s the text of a     *)
(* string, number or constant, l the items of a list, o the items of a     *)
(* dict ([k, v] records in insertion order, keys distinct).                *)
(***************************************************************************)
JNone == [t |-> "none", s |-> "", l |-> <<>>, o |-> <<>>]
JStr(x) == [t |-> "str", s |-> x, l |-> <<>>, o |-> <<>>]
JNum(x) == [t |-> "num", s |-> x, l |-> <<>>, o |-> <<>>]
JBool(x) == [t |-> "bool", s |-> x, l |-> <<>>, o |-> <<>>]
JList(items) == [t |-> "list", s |-> "", l |-> items, o |-> <<>>]
JDict(items) == [t |-> "dict", s |-> "", l |-> <<>>, o |-> items]
\* A Python object json cannot encode (a set, say): the encoder raises TypeError.
PyObject == [t |-> "object", s |-> "", l |-> <<>>, o |-> <<>>]

Field(key, v) == [k |-> key, v |-> v]

Keys(d) == {d.o[i].k : i \in 1..Len(d.o)}

Lookup(d, key) == (CHOOSE i \in 1..Len(d.o) : d.o[i].k = key)

DictGet(d, key) == d.o[Lookup(d, key)].v

\* d[key] = v on a Python dict: in place when the key is there, appended otherwise.
DictSet(items, key, v) ==
    IF \E i \in 1..Len(items) : items[i].k = key
    THEN [i \in 1..Len(items) |->
              IF items[i].k = key THEN [k |-> key, v |-> v] ELSE items[i]]
    ELSE Append(items, [k |-> key, v |-> v])

\* Python's == on these values: dicts compare as mappings, whatever the order.
RECURSIVE PyEq(_, _)
PyEq(a, b) ==
    /\ a.t = b.t
    /\ a.s = b.s
    /\ Len(a.l) = Len(b.l)
    /\ \A i \in 1..Len(a.l) : PyEq(a.l[i], b.l[i])
    /\ Keys(a) = Keys(b)
    /\ \A key \in Keys(a) : PyEq(DictGet(a, key), DictGet(b, key))

(***************************************************************************)
(* JSON text: tokens [k, s].  k is "p" (punctuation), "s" (a string        *)
(* literal, s its content), "n" (a number), "w" (a bare word), "ws"        *)
(* (white space) or "fence" (a code-fence marker, three backquotes).       *)
(* "raise" is no text: it marks, in the encoder's output, the place where  *)
(* the encoder raised.                                                     *)
(***************************************************************************)
Tok(kind, text) == [k |-> kind, s |-> text]
P(c) == Tok("p", c)
Ws == Tok("ws", " ")
Fence == Tok("fence", "bq3")
Raise == Tok("raise", "TypeError")

\* The chunks json's encoder yields for a value with indent=2, in order, up to
\* and including the place where it raises on an object it cannot encode.
RECURSIVE Dump(_)
RECURSIVE DumpItems(_)
RECURSIVE DumpMembers(_)
Dump(v) ==
    CASE v.t = "str"  -> <<Tok("s", v.s)>>
      [] v.t = "num"  -> <<Tok("n", v.s)>>
      [] v.t = "bool" -> <<Tok("w", v.s)>>
      [] v.t = "none" -> <<Tok("w", "null")>>
      [] v.t = "list" -> IF v.l = <<>> THEN <<P("["), P("]")>>
                         ELSE <<P("["), Ws>> \o DumpItems(v.l) \o <<Ws, P("]")>>
      [] v.t = "dict" -> IF v.o = <<>> THEN <<P("{"), P("}")>>
                         ELSE <<P("{"), Ws>> \o DumpMembers(v.o) \o <<Ws, P("}")>>
      [] OTHER        -> <<Raise>>
DumpItems(items) ==
    IF Len(items) = 1 THEN Dump(items[1])
    ELSE Dump(items[1]) \o <<P(","), Ws>> \o DumpItems(Tail(items))
DumpMembers(items) ==
    LET m == <<Tok("s", items[1].k), P(":"), Ws>> \o Dump(items[1].v)
    IN  IF Len(items) = 1 THEN m
        ELSE m \o <<P(","), Ws>> \o DumpMembers(Tail(items))

Encodable(v) == LET d == Dump(v) IN \A i \in 1..Len(d) : d[i] # Raise

\* json.dump(value, f, indent=2) writes each chunk as the encoder yields it: what
\* reaches the file is everything before the place where the encoder raised.
Written(v) ==
    LET d == Dump(v) IN
    IF \A i \in 1..Len(d) : d[i] # Raise THEN d
    ELSE LET i == CHOOSE j \in 1..Len(d) :
                     d[j] = Raise /\ \A k \in 1..(j - 1) : d[k] # Raise
         IN  SubSeq(d, 1, i - 1)

\* The first index from i on that holds no white space (Len + 1 when none).
RECURSIVE SkipWs(_, _)
SkipWs(toks, i) ==
    IF i <= Len(toks) /\ toks[i].k = "ws" THEN SkipWs(toks, i + 1) ELSE i

Parsed(v, next) == [ok |-> TRUE, v |-> v, n |-> next]
ParseError == [ok |-> FALSE, v |-> JNone, n |-> 0]

IsTok(toks, i, tok) == i <= Len(toks) /\ toks[i] = tok

\* The decoder of json.load: a value starting at token i (white space skipped).
RECURSIVE ParseValue(_, _)
RECURSIVE ParseItems(_, _, _)
RECURSIVE ParseMembers(_, _, _)
ParseValue(toks, i0) ==
    LET i == SkipWs(toks, i0) IN
    IF i > Len(toks) THEN ParseError
    ELSE LET tok == toks[i] IN
         CASE tok.k = "s" -> Parsed(JStr(tok.s), i + 1)
           [] tok.k = "n" -> Parsed(JNum(tok.s), i + 1)
           [] tok.k = "w" /\ tok.s \in {"true", "false"} -> Parsed(JBool(tok.s), i + 1)
           [] tok.k = "w" /\ tok.s = "null" -> Parsed(JNone, i + 1)
           [] tok = P("[") ->
                IF IsTok(toks, SkipWs(toks, i + 1), P("]"))
                THEN Parsed(JList(<<>>), SkipWs(toks, i + 1) + 1)
                ELSE ParseItems(toks, i + 1, <<>>)
           [] tok = P("{") ->
                IF IsTok(toks, SkipWs(toks, i + 1), P("}"))
                THEN Parsed(JDict(<<>>), SkipWs(toks, i + 1) + 1)
                ELSE ParseMembers(toks, i + 1, <<>>)
           [] OTHER -> ParseError
ParseItems(toks, i, acc) ==
    LET r == ParseValue(toks, i) IN
    IF ~r.ok THEN ParseError
    ELSE LET j == SkipWs(toks, r.n) IN
         IF IsTok(toks, j, P(",")) THEN ParseItems(toks, j + 1, Append(acc, r.v))
         ELSE IF IsTok(toks, j, P("]")) THEN Parsed(JList(Append(acc, r.v)), j + 1)
         ELSE ParseError
ParseMembers(toks, i0, acc) ==
    LET i == SkipWs(toks, i0) IN
    IF ~(i <= Len(toks) /\ toks[i].k = "s") THEN ParseError
    ELSE LET c == SkipWs(toks, i + 1) IN
         IF ~IsTok(toks, c, P(":")) THEN ParseError
         ELSE LET r == ParseValue(toks, c + 1) IN
              IF ~r.ok THEN ParseError
              ELSE LET j == SkipWs(toks, r.n)
                       acc2 == DictSet(acc, toks[i].s, r.v)
                   IN  IF IsTok(toks, j, P(",")) THEN ParseMembers(toks, j + 1, acc2)
                       ELSE IF IsTok(toks, j, P("}")) THEN Parsed(JDict(acc2), j + 1)
                       ELSE ParseError

\* json.loads(text): one value and nothing but white space after it; r.ok is
\* FALSE where Python raises JSONDecodeError.
Loads(toks) ==
    LET r == ParseValue(toks, 1) IN
    IF r.ok /\ SkipWs(toks, r.n) > Len(toks) THEN r ELSE ParseError

(***************************************************************************)
(* cache_utils.py                                                          *)
(***************************************************************************)
\* A key derivation that leaves the ".json" extension out.
KeyWithoutSuffix(repo_url, issue_number) ==
    Replace(Replace(repo_url, <<"/">>, <<"_">>), <<":">>, <<>>)
        \o IssueMarker \o StrOfInt(issue_number)

\* f"{repo_url.replace('/', '_').replace(':', '')}_issue_{issue_number}.json"
_get_cache_key(repo_url, issue_number) ==
    Replace(Replace(repo_url, <<"/">>, <<"_">>), <<":">>, <<>>)
        \o IssueMarker \o StrOfInt(issue_number) \o JsonSuffix

\* CACHE_DIR.mkdir(exist_ok=True): creates the directory when nothing is at the
\* path, leaves a directory alone, and raises when the path holds a file that
\* is no directory ("file") or when the directory cannot be created ("denied").
_ensure_cache_dir(d) ==
    [raised |-> d \in {"file", "denied"}, dir |-> IF d = "absent" THEN "dir" ELSE d]

\* The body of get_cached_analysis after _ensure_cache_dir: the value returned.
ReadEntry(fs, name) ==
    IF name \in DOMAIN fs
    THEN LET r == Loads(fs[name]) IN IF r.ok THEN r.v ELSE JNone
    ELSE JNone

\* A write that opens the file in append mode ('a') instead of 'w'.
WriteEntryAppend(fs, name, result) ==
    [n \in DOMAIN fs \cup {name} |->
        IF n = name
        THEN (IF name \in DOMAIN fs THEN fs[name] ELSE <<>>) \o Written(result)
        ELSE fs[n]]

\* open(cache_file, 'w') and json.dump: the file is truncated, then holds what
\* the encoder wrote before it finished or raised.
WriteEntry(fs, name, result) ==
    [n \in DOMAIN fs \cup {name} |-> IF n = name THEN Written(result) ELSE fs[n]]

\* CACHE_DIR.glob("*.json"): the names the pattern matches.
GlobJson(fs) == {n \in DOMAIN fs : EndsWith(n, JsonSuffix)}

NoCall == [op |-> "none", url |-> <<>>, num |-> 0, rec |-> JNone, ok |-> FALSE,
           raised |-> FALSE, fresh |-> FALSE, ret |-> JNone, removed |-> 0]

\* get_cached_analysis(repo_url, issue_number).  last.fresh and last.rec record
\* whether the call before was a cache_analysis of the same pair whose write
\* succeeded, and the record it stored.
get_cached_analysis(repo_url, issue_number) ==
    LET e == _ensure_cache_dir(dirState)
        name == _get_cache_key(repo_url, issue_number)
        fresh == /\ last.op = "put" /\ last.ok
                 /\ last.url = repo_url /\ last.num = issue_number
        call == [NoCall EXCEPT !.op = "get", !.url = repo_url, !.num = issue_number,
                               !.fresh = fresh,
                               !.rec = IF fresh THEN last.rec ELSE JNone]
    IN  /\ IF e.raised
           THEN /\ last' = [call EXCEPT !.raised = TRUE]
                /\ UNCHANGED <<dirState, files>>
           ELSE /\ dirState' = e.dir
                /\ last' = [call EXCEPT !.ret = ReadEntry(files, name)]
                /\ UNCHANGED files
        /\ UNCHANGED <<cleared, pc, wrec, order, fetched, analyzed>>

\* cache_analysis(repo_url, issue_number, result).  last.ok says that the write
\* succeeded (the encoder did not raise).
cache_analysis(repo_url, issue_number, result) ==
    LET e == _ensure_cache_dir(dirState)
        name == _get_cache_key(repo_url, issue_number)
        call == [NoCall EXCEPT !.op = "put", !.url = repo_url, !.num = issue_number,
                               !.rec = result]
    IN  /\ IF e.raised
           THEN /\ last' = [call EXCEPT !.raised = TRUE]
                /\ UNCHANGED <<dirState, files, cleared>>
           ELSE /\ dirState' = e.dir
                /\ files' = WriteEntry(files, name, result)
                /\ last' = [call EXCEPT !.ok = Encodable(result)]
                /\ cleared' = -1
        /\ UNCHANGED <<pc, wrec, order, fetched, analyzed>>

\* clear_cache().  CACHE_DIR.exists() holds for a directory and for a file; the
\* glob of a path that is no directory matches nothing.
clear_cache ==
    LET gone == IF dirState = "dir" THEN GlobJson(files) ELSE {}
    IN  /\ files' = [n \in DOMAIN files \ gone |-> files[n]]
        /\ last' = [NoCall EXCEPT !.op = "clear", !.removed = Cardinality(gone)]
        /\ cleared' = Cardinality(gone)
        /\ UNCHANGED <<dirState, pc, wrec, order, fetched, analyzed>>

(***************************************************************************)
(* github_utils.py                                                         *)
(***************************************************************************)
MaxUrlLen == 3     \* the path of a fetched URL has at most MaxUrlLen characters

\* repo_url.replace("https://github.com/", "").split("/")
Segments(repo_url) == Split(Replace(repo_url, GithubPrefix, <<>>), "/")

\* An unpacking that takes a missing repository name to be empty.
Unpack2Padded(parts) ==
    [ok |-> TRUE, owner |-> parts[1],
     repo |-> IF Len(parts) >= 2 THEN parts[2] ELSE <<>>]

\* owner, repo = parts[:2]: unpacking fewer than two values raises ValueError.
Unpack2(parts) ==
    IF Len(parts) >= 2
    THEN [ok |-> TRUE, owner |-> parts[1], repo |-> parts[2]]
    ELSE [ok |-> FALSE, owner |-> <<>>, repo |-> <<>>]

\* A request as requests.get receives it: the endpoint built from owner, repo
\* and issue number, and whether the Authorization header is set.
Request(endpoint, owner, repo, issue_number, token) ==
    [endpoint |-> endpoint, owner |-> owner, repo |-> repo,
     num |-> issue_number, auth |-> token]

\* What requests.get does: "timeout" raises requests.exceptions.Timeout,
\* "error" another RequestException, "resp" returns a response.
Timeout == [kind |-> "timeout", status |-> 0, body |-> <<>>]
ConnectionError == [kind |-> "error", status |-> 0, body |-> <<>>]
Response(status, body) == [kind |-> "resp", status |-> status, body |-> body]

\* The returned dict: keys is its key set, the other fields the values of the
\* keys it has.  A text is the sequence of its non-empty pieces.
ErrorResult(text) ==
    [keys |-> {"error"}, error |-> text, title |-> JNone, body |-> JNone,
     comments |-> <<>>]
IssueResult(title, body, comments) ==
    [keys |-> {"title", "body", "comments"}, error |-> <<>>, title |-> title,
     body |-> body, comments |-> comments]

InvalidUrlError == ErrorResult(<<"Invalid GitHub URL format">>)
TimeoutError == ErrorResult(<<"Request timeout - GitHub server took too long">>)
NetworkError == ErrorResult(<<"Network error: ", "connection failed">>)
ApiError(status) == ErrorResult(<<"GitHub API error: ">> \o StrOfInt(status))
\* except Exception as e: str(e) of an AttributeError or a TypeError.
OtherError(message) == ErrorResult(<<message>>)

\* d.get(key, "") on a dict.
GetOr(d, key) == IF key \in Keys(d) THEN DictGet(d, key) ELSE JStr("")

\* Python truthiness of a decoded value.
Truthy(v) ==
    CASE v.t = "list" -> v.l # <<>>
      [] v.t = "dict" -> v.o # <<>>
      [] v.t = "str"  -> v.s # ""
      [] v.t = "num"  -> v.s # "0"
      [] v.t = "bool" -> v.s = "true"
      [] OTHER        -> FALSE

\* "\n".join(bodies), as a text.
RECURSIVE Join(_)
Join(bodies) ==
    IF bodies = <<>> THEN <<>>
    ELSE (IF Head(bodies) = "" THEN <<>> ELSE <<Head(bodies)>>)
             \o (IF Len(bodies) > 1 THEN <<"\n">> ELSE <<>>) \o Join(Tail(bodies))

\* "\n".join([c.get("body", "") for c in comments]) if comments else "":
\* bad is the message of the exception raised ("" when none).
CommentsText(comments) ==
    IF ~Truthy(comments) THEN [bad |-> "", text |-> <<>>]
    ELSE IF comments.t = "dict" \/ comments.t = "str"
    THEN [bad |-> "'str' object has no attribute 'get'", text |-> <<>>]
    ELSE IF comments.t # "list"
    THEN [bad |-> "object is not iterable", text |-> <<>>]
    ELSE IF \E i \in 1..Len(comments.l) : comments.l[i].t # "dict"
    THEN [bad |-> "object has no attribute 'get'", text |-> <<>>]
    ELSE IF \E i \in 1..Len(comments.l) : GetOr(comments.l[i], "body").t # "str"
    THEN [bad |-> "sequence item: expected str instance", text |-> <<>>]
    ELSE [bad |-> "",
          text |-> Join([i \in 1..Len(comments.l) |-> GetOr(comments.l[i], "body").s])]

\* Lines 51-65: both responses are in hand.  resp.json() raises a ValueError
\* (a JSONDecodeError) on a body that is no JSON, and the except ValueError
\* clause, the first of the handlers, catches it.
AfterRequests(issue_resp, comments_resp) ==
    IF issue_resp.status # 200 THEN ApiError(issue_resp.status)
    ELSE LET issue == Loads(issue_resp.body)
             decoded == IF comments_resp.status = 200 THEN Loads(comments_resp.body)
                        ELSE Parsed(JList(<<>>), 0)
             joined == CommentsText(decoded.v)
         IN  IF ~issue.ok THEN InvalidUrlError
             ELSE IF ~decoded.ok THEN InvalidUrlError
             ELSE IF joined.bad # "" THEN OtherError(joined.bad)
             ELSE IF issue.v.t # "dict" THEN OtherError("object has no attribute 'get'")
             ELSE IssueResult(GetOr(issue.v, "title"), GetOr(issue.v, "body"),
                              joined.text)

\* fetch_github_issue(repo_url, issue_number) with the environment's token
\* and the outcomes of the two requests: the requests sent and the result.
FetchOutcome(repo_url, issue_number, token, issue_out, comments_out) ==
    LET u == Unpack2(Segments(repo_url))
        issue_req == Request("issue", u.owner, u.repo, issue_number, token)
        comments_req == Request("comments", u.owner, u.repo, issue_number, token)
    IN  IF ~u.ok THEN [sent |-> <<>>, result |-> InvalidUrlError]
        ELSE IF issue_out.kind = "timeout"
        THEN [sent |-> <<issue_req>>, result |-> TimeoutError]
        ELSE IF issue_out.kind = "error"
        THEN [sent |-> <<issue_req>>, result |-> NetworkError]
        ELSE IF comments_out.kind = "timeout"
        THEN [sent |-> <<issue_req, comments_req>>, result |-> TimeoutError]
        ELSE IF comments_out.kind = "error"
        THEN [sent |-> <<issue_req, comments_req>>, result |-> NetworkError]
        ELSE [sent |-> <<issue_req, comments_req>>,
              result |-> AfterRequests(issue_out, comments_out)]

NoFetch ==
    [called |-> FALSE, url |-> <<>>, num |-> 0, token |-> FALSE,
     issue |-> Timeout, comments |-> Timeout,
     sent |-> <<>>, result |-> ErrorResult(<<>>)]

fetch_github_issue(repo_url, issue_number, token, issue_out, comments_out) ==
    LET out == FetchOutcome(repo_url, issue_number, token, issue_out, comments_out)
    IN  /\ fetched' = [called |-> TRUE, url |-> repo_url, num |-> issue_number,
                       token |-> token, issue |-> issue_out,
                       comments |-> comments_out,
                       sent |-> out.sent, result |-> out.result]
        /\ UNCHANGED <<dirState, files, last, cleared, pc, wrec, order, analyzed>>

(***************************************************************************)
(* hf.py                                                                   *)
(***************************************************************************)
RequiredFields ==
    <<"summary", "type", "priority_score", "suggested_labels", "potential_impact">>

\* A string that holds the names of the five fields.
AllFieldsText == "summary type priority_score suggested_labels potential_impact"

\* key in text, on the strings of this model: a string holds a field's name
\* when it is that name or AllFieldsText.
IsSubstring(key, text) == text = key \/ text = AllFieldsText

\* text.strip(): leading and trailing white space removed.
RECURSIVE StripRight(_)
StripRight(toks) ==
    IF toks # <<>> /\ Last(toks).k = "ws"
    THEN StripRight(SubSeq(toks, 1, Len(toks) - 1)) ELSE toks
Strip(toks) == LET i == SkipWs(toks, 1) IN StripRight(Drop(toks, i - 1))

\* text.split(fence)[1] of a text that starts with the fence: what is between
\* the first fence and the next one (or the end).
AfterFence(toks) ==
    LET rest == Tail(toks)
        ends == {i \in 1..Len(rest) : rest[i] = Fence}
    IN  IF ends = {} THEN rest
        ELSE SubSeq(rest, 1, (CHOOSE i \in ends : \A j \in ends : i <= j) - 1)

\* Lines 92-98: strip, then remove a leading fence and a "json" tag after it.
Unfence(text) ==
    LET stripped == Strip(text) IN
    IF stripped # <<>> /\ Head(stripped) = Fence
    THEN LET inner == AfterFence(stripped) IN
         IF inner # <<>> /\ Head(inner) = Tok("w", "json") THEN Tail(inner) ELSE inner
    ELSE stripped

\* key in result: raises TypeError (ok FALSE) on a value that is no container.
Contains(result, key) ==
    CASE result.t = "dict" -> [ok |-> TRUE, has |-> key \in Keys(result)]
      [] result.t = "list" ->
             [ok |-> TRUE, has |-> \E i \in 1..Len(result.l) : result.l[i] = JStr(key)]
      [] result.t = "str"  -> [ok |-> TRUE, has |-> IsSubstring(key, result.s)]
      [] OTHER             -> [ok |-> FALSE, has |-> FALSE]

ParsingFailed ==
    JDict(<<Field("error", JStr("AI response parsing failed")),
            Field("details", JStr("Could not parse AI output as JSON"))>>)
Incomplete == JDict(<<Field("error", JStr("Incomplete analysis response"))>>)
AnalysisFailed(message) ==
    JDict(<<Field("error", JStr("Analysis failed")), Field("details", JStr(message))>>)

\* What client.models.generate_content gives: "raise" an exception, "none" a
\* response whose text is None, "text" a response with a text.
ApiFailure == [kind |-> "raise", text |-> <<>>]
NoText == [kind |-> "none", text |-> <<>>]
ModelText(toks) == [kind |-> "text", text |-> toks]

\* Lines 84-117 of analyze_issue_with_ai: the value returned.
AnalysisOutcome(response) ==
    IF response.kind = "raise" THEN AnalysisFailed("API error")
    ELSE IF response.kind = "none"
    THEN AnalysisFailed("'NoneType' object has no attribute 'strip'")
    ELSE LET parsed == Loads(Unfence(response.text)) IN
         IF ~parsed.ok THEN ParsingFailed
         ELSE IF ~Contains(parsed.v, RequiredFields[1]).ok
         THEN AnalysisFailed("argument is not iterable")
         ELSE IF \A i \in 1..Len(RequiredFields) :
                     Contains(parsed.v, RequiredFields[i]).has
         THEN parsed.v
         ELSE Incomplete

NoAnalysis == [called |-> FALSE, response |-> ApiFailure, result |-> JNone]

analyze_issue_with_ai(response) ==
    /\ analyzed' = [called |-> TRUE, response |-> response,
                    result |-> AnalysisOutcome(response)]
    /\ UNCHANGED <<dirState, files, last, cleared, pc, wrec, order, fetched>>

(***************************************************************************)
(* The inputs of the cache calls.                                          *)
(***************************************************************************)
IssueNumbers == 1..MaxIssue

Url(path) == GithubPrefix \o path

\* Two repository URLs: https://github.com/a/b and https://github.com/a_b.
CacheUrls == {Url(<<"a", "/", "b">>), Url(<<"a", "_", "b">>)}

\* A well-formed analysis.
GoodRecord ==
    JDict(<<Field("summary", JStr("s")), Field("type", JStr("bug")),
            Field("priority_score", JStr("3 - x")),
            Field("suggested_labels", JList(<<JStr("a"), JStr("b")>>)),
            Field("potential_impact", JStr("i"))>>)

\* A failure record of the analyzer.
FailureRecord ==
    JDict(<<Field("error", JStr("Analysis failed")), Field("details", JStr("d"))>>)

\* A record json cannot encode: the write fails midway.
BadRecord == JDict(<<Field("summary", JStr("s")), Field("type", PyObject)>>)

CacheRecords == {GoodRecord, FailureRecord, BadRecord}

NoFiles == [n \in {} |-> <<>>]

CacheInit ==
    /\ dirState \in {"absent", "dir", "file", "denied"}
    /\ files = NoFiles
    /\ last = NoCall
    /\ cleared = -1

Init ==
    /\ CacheInit
    /\ pc = <<>> /\ wrec = <<>> /\ order = <<>>
    /\ fetched = NoFetch
    /\ analyzed = NoAnalysis

Get == \E u \in CacheUrls, n \in IssueNumbers : get_cached_analysis(u, n)

Put == \E u \in CacheUrls, n \in IssueNumbers, r \in CacheRecords : cache_analysis(u, n, r)

Clear == clear_cache

Next == Get \/ Put \/ Clear

Spec == Init /\ [][Next]_vars

(***************************************************************************)
(* Two concurrent cache_analysis calls for one key.  Each call is split    *)
(* where the operating system can interleave it: the open (which creates   *)
(* or truncates the file and gives the writer a descriptor at offset 0)    *)
(* and the close.  json.dump writes into the file object's buffer; what it *)
(* wrote reaches the file in one write at the descriptor's offset when the *)
(* with-block closes the file.                                             *)
(***************************************************************************)
Writers == {1, 2}

RaceUrl == Url(<<"a", "/", "b">>)

RaceIssue == MaxIssue

RaceFile == _get_cache_key(RaceUrl, RaceIssue)

\* write(2) of data at offset 0 of a file holding old: the bytes of old beyond
\* the data stay.
WriteAtStart(old, data) == data \o Drop(old, Len(data))

\* _ensure_cache_dir() and open(cache_file, 'w') of cache_analysis.
WriterOpen(w) ==
    /\ pc[w] = "start"
    /\ ~_ensure_cache_dir(dirState).raised
    /\ dirState' = _ensure_cache_dir(dirState).dir
    /\ files' = [n \in DOMAIN files \cup {RaceFile} |->
                     IF n = RaceFile THEN <<>> ELSE files[n]]
    /\ pc' = [pc EXCEPT ![w] = "opened"]
    /\ UNCHANGED <<last, cleared, wrec, order, fetched, analyzed>>

\* json.dump(result, f, indent=2) and the end of the with-block.
WriterClose(w) ==
    /\ pc[w] = "opened"
    /\ files' = [files EXCEPT ![RaceFile] = WriteAtStart(@, Written(wrec[w]))]
    /\ pc' = [pc EXCEPT ![w] = "closed"]
    /\ order' = Append(order, w)
    /\ cleared' = -1
    /\ UNCHANGED <<dirState, last, wrec, fetched, analyzed>>

\* A get_cached_analysis for the key once both calls have returned.
RaceGet ==
    /\ \A w \in Writers : pc[w] = "closed"
    /\ get_cached_analysis(RaceUrl, RaceIssue)

RaceInit ==
    /\ dirState \in {"absent", "dir"}
    /\ files = NoFiles
    /\ last = NoCall
    /\ cleared = -1
    /\ pc = [w \in Writers |-> "start"]
    /\ wrec \in [Writers -> CacheRecords]
    /\ order = <<>>
    /\ fetched = NoFetch
    /\ analyzed = NoAnalysis

RaceNext == (\E w \in Writers : WriterOpen(w) \/ WriterClose(w)) \/ RaceGet

SpecRace == RaceInit /\ [][RaceNext]_vars

(***************************************************************************)
(* The inputs of fetch_github_issue.                                       *)
(***************************************************************************)
RECURSIVE SeqsUpTo(_, _)
SeqsUpTo(S, n) ==
    IF n = 0 THEN {<<>>}
    ELSE SeqsUpTo(S, n - 1) \cup {Append(q, c) : q \in SeqsUpTo(S, n - 1), c \in S}

Paths == SeqsUpTo({"a", "/"}, MaxUrlLen)

FetchUrls == Paths \cup {Url(p) : p \in Paths}

Statuses == {200, 404}

NotJson == <<Tok("w", "<html>")>>

IssueBodies ==
    { Dump(JDict(<<Field("title", JStr("t")), Field("body", JStr("b"))>>)),
      Dump(JDict(<<Field("title", JStr("t"))>>)),
      Dump(JList(<<>>)),
      NotJson }

Comment(text) == JDict(<<Field("body", JStr(text))>>)

CommentsBodies ==
    { Dump(JList(<<Comment("c1"), Comment("c2")>>)),
      Dump(JList(<<Comment("")>>)),
      Dump(JList(<<>>)),
      Dump(JDict(<<Field("message", JStr("Not Found"))>>)),
      NotJson }

IssueOutcomes ==
    {Timeout, ConnectionError} \cup {Response(s, b) : s \in Statuses, b \in IssueBodies}

CommentsOutcomes ==
    {Timeout, ConnectionError}
        \cup {Response(s, b) : s \in Statuses, b \in CommentsBodies}

FetchInit ==
    /\ dirState = "absent" /\ files = NoFiles /\ last = NoCall /\ cleared = -1
    /\ pc = <<>> /\ wrec = <<>> /\ order = <<>>
    /\ fetched = NoFetch
    /\ analyzed = NoAnalysis

\* One call of fetch_github_issue.
Fetch ==
    /\ ~fetched.called
    /\ \E u \in FetchUrls, n \in IssueNumbers, token \in BOOLEAN,
       i \in IssueOutcomes, c \in CommentsOutcomes :
           fetch_github_issue(u, n, token, i, c)

FetchNext == Fetch

SpecFetch == FetchInit /\ [][FetchNext]_vars

(***************************************************************************)
(* The inputs of analyze_issue_with_ai: the model's answers.               *)
(***************************************************************************)
AnswerFields == {RequiredFields[i] : i \in 1..Len(RequiredFields)} \cup {"error"}

FieldValue(key) ==
    IF key = "suggested_labels" THEN JList(<<JStr("a")>>) ELSE JStr("x")

\* The dict with the given fields, in a fixed order.
RECURSIVE DictOf(_)
DictOf(fields) ==
    IF fields = {} THEN <<>>
    ELSE LET key == CHOOSE f \in fields : TRUE
         IN  <<Field(key, FieldValue(key))>> \o DictOf(fields \ {key})

Answers ==
    {JDict(DictOf(fields)) : fields \in SUBSET AnswerFields}
        \cup { JList([i \in 1..Len(RequiredFields) |-> JStr(RequiredFields[i])]),
               JList(<<>>), JStr(AllFieldsText), JStr("summary"), JNum("1"), JNone }

Wrappings(toks) ==
    { toks,
      <<Ws>> \o toks \o <<Ws>>,
      <<Fence, Ws>> \o toks \o <<Ws, Fence>>,
      <<Fence, Tok("w", "json"), Ws>> \o toks \o <<Ws, Fence, Ws>> }

ModelTexts ==
    UNION {Wrappings(Dump(v)) : v \in Answers}
        \cup { <<>>, <<Fence>>, <<Tok("w", "Sure"), Ws, Tok("w", "thing")>>,
               <<P("{"), Ws, Tok("s", "summary"), P(":")>>,
               Dump(JDict(DictOf(AnswerFields))) \o <<Ws, Tok("w", "Done")>> }

Responses == {ApiFailure, NoText} \cup {ModelText(t) : t \in ModelTexts}

AnalyzeInit ==
    /\ dirState = "absent" /\ files = NoFiles /\ last = NoCall /\ cleared = -1
    /\ pc = <<>> /\ wrec = <<>> /\ order = <<>>
    /\ fetched = NoFetch
    /\ analyzed = NoAnalysis

\* One call of analyze_issue_with_ai.
Analyze == ~analyzed.called /\ \E r \in Responses : analyze_issue_with_ai(r)

AnalyzeNext == Analyze

SpecAnalyze == AnalyzeInit /\ [][AnalyzeNext]_vars

(***************************************************************************)
(* The properties.                                                         *)
(***************************************************************************)
Pairs == CacheUrls \X IssueNumbers

\* C1: a get_cached_analysis that immediately follows a cache_analysis of the
\* same (URL, issue number) whose write succeeded returns, without raising, a
\* record structurally equal to the one stored; whether the directory existed
\* before the put or an entry was already under the key.
C1_RoundTrip ==
    (last.op = "get" /\ last.fresh) => (~last.raised /\ PyEq(last.ret, last.rec))

C1_Witness == last.op = "get" /\ last.fresh /\ PyEq(last.ret, GoodRecord)

\* C2: no two distinct (URL, issue number) pairs derive the same key, so a
\* cache_analysis for one pair never changes what get_cached_analysis returns
\* for another.
C2_KeysCollisionFree ==
    [][(last'.op = "put" /\ ~last'.raised) =>
          \A q \in Pairs :
              q # <<last'.url, last'.num>> =>
                  /\ _get_cache_key(q[1], q[2]) # _get_cache_key(last'.url, last'.num)
                  /\ ReadEntry(files', _get_cache_key(q[1], q[2]))
                         = ReadEntry(files, _get_cache_key(q[1], q[2]))]_vars

HasAll(result) == \A i \in 1..Len(RequiredFields) : RequiredFields[i] \in Keys(result)
HasNone(result) == \A i \in 1..Len(RequiredFields) : RequiredFields[i] \notin Keys(result)
WellFormed(result) == result.t = "dict" /\ HasAll(result) /\ "error" \notin Keys(result)
IsFailure(result) == result.t = "dict" /\ "error" \in Keys(result) /\ HasNone(result)

\* C3: every value analyze_issue_with_ai returns is a well-formed analysis (the
\* five fields, no error) or a failure record (error, none of the five fields).
C3_WellFormedOrFailure ==
    analyzed.called => (WellFormed(analyzed.result) \/ IsFailure(analyzed.result))

IssueSent == fetched.called /\ Len(fetched.sent) >= 1

\* C4: when the issue request completes with a status other than 200, the call
\* returns the API error with that status, whatever the comments request did.
C4_ApiErrorOnNon200 ==
    (IssueSent /\ fetched.issue.kind = "resp" /\ fetched.issue.status # 200)
        => fetched.result = ApiError(fetched.issue.status)

\* C5: when the issue request succeeds with status 200 (and a body that is a
\* JSON object) and the comments request fails or returns a status other than
\* 200, the call returns title, body and comments, with comments empty.
C5_CommentsSoftFail ==
    (/\ IssueSent
     /\ fetched.issue.kind = "resp" /\ fetched.issue.status = 200
     /\ Loads(fetched.issue.body).ok /\ Loads(fetched.issue.body).v.t = "dict"
     /\ \/ fetched.comments.kind \in {"timeout", "error"}
        \/ fetched.comments.status # 200)
        => /\ fetched.result.keys = {"title", "body", "comments"}
           /\ fetched.result.comments = <<>>

TooFewSegments == Len(Segments(fetched.url)) < 2

\* C6: for a URL with fewer than two path segments after the host prefix is
\* removed, the call returns the invalid-URL error and sends no request.
C6_InvalidUrlNoRequest ==
    (fetched.called /\ TooFewSegments)
        => (fetched.result = InvalidUrlError /\ fetched.sent = <<>>)

C6_Witness ==
    /\ fetched.called /\ TooFewSegments /\ fetched.url # <<>>
    /\ fetched.result = InvalidUrlError

\* C7: get_cached_analysis and cache_analysis never raise, whatever is at the
\* cache directory's path.
C7_NeverRaises == last.op \in {"get", "put"} => ~last.raised

\* C8: after a clear_cache, and until the next cache_analysis, the cache
\* directory holds no entry and get_cached_analysis returns None for every
\* pair; and a clear_cache that finds no cache directory changes nothing.
C8_ClearEmpties ==
    /\ [](cleared >= 0 =>
             /\ DOMAIN files = {}
             /\ \A q \in Pairs : ReadEntry(files, _get_cache_key(q[1], q[2])) = JNone
             /\ (last.op = "get" /\ ~last.raised) => last.ret = JNone)
    /\ [][(last'.op = "clear" /\ dirState = "absent")
             => (dirState' = "absent" /\ files' = files)]_vars

C8_Witness ==
    last.op = "get" /\ cleared >= 2 /\ ~last.raised /\ last.ret = JNone

\* C10: the invalid-URL error is returned only for a URL with fewer than two
\* path segments, hence only when no request was sent.
C10_InvalidUrlOnlyForBadUrl ==
    (fetched.called /\ fetched.result = InvalidUrlError)
        => (TooFewSegments /\ fetched.sent = <<>>)

(***************************************************************************)
(* C9: when two concurrent cache_analysis calls for the same key have both *)
(* written their record and returned, a get for the key returns the record *)
(* of the call that finished last.                                         *)
(***************************************************************************)
C9_LastWriterWins ==
    (/\ last.op = "get"
     /\ \A w \in Writers : pc[w] = "closed" /\ Encodable(wrec[w]))
        => PyEq(last.ret, wrec[Last(order)])

====
